---- MODULE Spec2Model ----
(***************************************************************************)
(* GUIOSGManipulator (src/osgview/GUIOSGManipulator.cpp): the camera       *)
(* manipulator of the OSG view, as a state machine.                        *)
(*                                                                         *)
(* Numbers.  Vectors are integer triples.  Rotations (osg::Quat) are the   *)
(* 24 rotations that map the coordinate axes onto each other, written as   *)
(* the triple of the images of X, Y and Z; angles are counted in quarter   *)
(* turns, so every product, axis-angle rotation and vector image the code  *)
(* computes is computed here exactly.  A rigid osg::Matrixd is the pair    *)
(* (rotation, translation) of the map v |-> rot(v) + trans.                *)
(* osg composes left to right: (a * b) applies a first, then b, both for   *)
(* Quat and for Matrixd.                                                   *)
(***************************************************************************)
EXTENDS Integers, Sequences, FiniteSets, TLC

\* ------------------------------------------------------------------------
\* Bounds of the model
\* ------------------------------------------------------------------------
\* Largest absolute value of a coordinate of _center.
MaxCoord == 6
\* Largest absolute value of a component of myMove.
MaxMove == 3
\* Largest timestamp of a pointer event.
MaxTime == 1
\* Largest _distance.
MaxDist == 2
\* Number of calls made on one manipulator.
MaxCalls == 2
\* Number of key events in a keyboard-only session.
MaxKeyCalls == 3
\* Largest _distance of a manipulator whose matrices are taken.
MaxViewDist == 10

\* ------------------------------------------------------------------------
\* Program constants
\* ------------------------------------------------------------------------
DEFAULT_MOVESPEED_MIN == 1
\* The retry bound of rotateYawPitch (if (++i == 20)).
MaxTries == 20

MODE_EGO == "MODE_EGO"
MODE_WALK == "MODE_WALK"
MODE_TERRAIN == "MODE_TERRAIN"
ManipulatorMode == {MODE_EGO, MODE_WALK, MODE_TERRAIN}

KEY_Up == "KEY_Up"
KEY_Down == "KEY_Down"
KEY_Left == "KEY_Left"
KEY_Right == "KEY_Right"
KEY_F == "KEY_F"
\* A key the manipulator has no case for.
KEY_A == "KEY_A"
Keys == {KEY_Up, KEY_Down, KEY_Left, KEY_Right, KEY_F, KEY_A}
MoveKeys == {KEY_Up, KEY_Down, KEY_Left, KEY_Right}

\* ------------------------------------------------------------------------
\* osg::Vec3d
\* ------------------------------------------------------------------------
Zero3 == <<0, 0, 0>>
X_AXIS == <<1, 0, 0>>
Y_AXIS == <<0, 1, 0>>
Z_AXIS == <<0, 0, 1>>

VAdd(a, b) == <<a[1] + b[1], a[2] + b[2], a[3] + b[3]>>
VSub(a, b) == <<a[1] - b[1], a[2] - b[2], a[3] - b[3]>>
VNeg(a) == <<-a[1], -a[2], -a[3]>>
VScale(k, a) == <<k * a[1], k * a[2], k * a[3]>>
\* operator* of two vectors: the dot product.
VDot(a, b) == a[1] * b[1] + a[2] * b[2] + a[3] * b[3]
\* operator^ of two vectors: the cross product.
VCross(a, b) ==
    <<a[2] * b[3] - a[3] * b[2], a[3] * b[1] - a[1] * b[3], a[1] * b[2] - a[2] * b[1]>>
VLength2(a) == VDot(a, a)
Abs(n) == IF n < 0 THEN -n ELSE n

\* double -> float (the float dx, dy and the Vec3f eye): integers of up to
\* 24 bits are kept; larger ones lose their low bits, rounded to the nearest
\* float, a tie to the one with the even mantissa.
RECURSIVE FloatStep(_)
FloatStep(n) == IF n < 16777216 THEN 1 ELSE 2 * FloatStep(n \div 2)
ToFloat(n) ==
    LET s == FloatStep(Abs(n))
        q == Abs(n) \div s
        r == Abs(n) % s
        up == IF 2 * r > s \/ (2 * r = s /\ q % 2 = 1) THEN q + 1 ELSE q
    IN  IF n < 0 THEN -(up * s) ELSE up * s
ToVec3f(v) == <<ToFloat(v[1]), ToFloat(v[2]), ToFloat(v[3])>>

\* ------------------------------------------------------------------------
\* osg::Quat
\* ------------------------------------------------------------------------
QIdentity == <<X_AXIS, Y_AXIS, Z_AXIS>>
\* Quat * Vec3d: the vector rotated.
QRot(q, v) ==
    <<v[1] * q[1][1] + v[2] * q[2][1] + v[3] * q[3][1],
      v[1] * q[1][2] + v[2] * q[2][2] + v[3] * q[3][2],
      v[1] * q[1][3] + v[2] * q[2][3] + v[3] * q[3][3]>>
\* Quat * Quat: a first, then b.
QMul(a, b) == <<QRot(b, a[1]), QRot(b, a[2]), QRot(b, a[3])>>
\* Quat::inverse(): the transpose.
QInverse(q) ==
    <<<<q[1][1], q[2][1], q[3][1]>>, <<q[1][2], q[2][2], q[3][2]>>, <<q[1][3], q[2][3], q[3][3]>>>>

Cos4(k) == CASE k % 4 = 0 -> 1 [] k % 4 = 2 -> -1 [] OTHER -> 0
Sin4(k) == CASE k % 4 = 1 -> 1 [] k % 4 = 3 -> -1 [] OTHER -> 0
\* One vector turned by angle quarter turns about the unit vector axis:
\* (axis.v) axis + cos (v - (axis.v) axis) + sin (axis ^ v).
RotateAbout(angle, axis, v) ==
    LET along == VDot(axis, v) * (1 - Cos4(angle))
        across == VCross(axis, v)
    IN  <<along * axis[1] + Cos4(angle) * v[1] + Sin4(angle) * across[1],
          along * axis[2] + Cos4(angle) * v[2] + Sin4(angle) * across[2],
          along * axis[3] + Cos4(angle) * v[3] + Sin4(angle) * across[3]>>
\* Quat(angle, axis) / makeRotate(angle, axis); a zero axis gives the
\* identity rotation.
QAngleAxis(angle, axis) ==
    IF axis = Zero3
    THEN QIdentity
    ELSE <<RotateAbout(angle, axis, X_AXIS),
           RotateAbout(angle, axis, Y_AXIS),
           RotateAbout(angle, axis, Z_AXIS)>>
\* makeRotate(from, to) for unit vectors: the shortest arc; for opposite
\* vectors a half turn about an axis orthogonal to from, chosen by from's
\* first small component.
QFromTo(from, to) ==
    IF VDot(from, to) = 1 THEN QIdentity
    ELSE IF VDot(from, to) = -1
    THEN IF from[1] = 0 THEN QAngleAxis(2, <<0, from[3], -from[2]>>)
         ELSE IF from[2] = 0 THEN QAngleAxis(2, <<-from[3], 0, from[1]>>)
         ELSE QAngleAxis(2, <<from[2], -from[1], 0>>)
    ELSE QAngleAxis(1, VCross(from, to))

\* The 24 rotations: every product of quarter turns about X and Z.
QGenX == QAngleAxis(1, X_AXIS)
QGenZ == QAngleAxis(1, Z_AXIS)
RECURSIVE QClose(_)
QClose(S) ==
    LET T == S \cup {QMul(q, QGenX) : q \in S} \cup {QMul(q, QGenZ) : q \in S}
    IN  IF T = S THEN S ELSE QClose(T)
Rotations == QClose({QIdentity})

\* ------------------------------------------------------------------------
\* osg::Matrixd (rigid)
\* ------------------------------------------------------------------------
MIdentity == [rot |-> QIdentity, trans |-> Zero3]
MTranslate(t) == [rot |-> QIdentity, trans |-> t]
MRotate(q) == [rot |-> q, trans |-> Zero3]
\* Matrixd * Matrixd: a first, then b.
MMul(a, b) == [rot |-> QMul(a.rot, b.rot), trans |-> VAdd(QRot(b.rot, a.trans), b.trans)]
\* Vec3d * Matrixd: the point transformed.
MPoint(v, m) == VAdd(QRot(m.rot, v), m.trans)
\* Matrixd::getRotate()
MGetRotate(m) == m.rot

\* ------------------------------------------------------------------------
\* The manipulator's fields, as one record
\*   mode      myCurrentMode          move     myMove
\*   center    _center                t0, t1   _ga_t0, _ga_t1 (NoEvent = NULL)
\*   rotation  _rotation              vfixed   getVerticalAxisFixed()
\*   distance  _distance
\* myMoveSpeed is set to DEFAULT_MOVESPEED_MIN by the constructor and is
\* never assigned again.
\* ------------------------------------------------------------------------
myMoveSpeed == DEFAULT_MOVESPEED_MIN

NoEvent == [x |-> 0, y |-> 0, t |-> -1]
NoCall == [name |-> "none", dt |-> 0, dx |-> 0, dy |-> 0]
NoMatrix == [rot |-> QIdentity, trans |-> Zero3]

\* What one call did besides changing fields: its return value, the
\* warp-pointer requests it emitted, the base-class movement it invoked,
\* the candidates rotateYawPitch tried (their pitch angles, in order), the
\* setByMatrix calls made, whether a candidate passed the hemisphere check,
\* the eye and the matrix handed to setByMatrix, and a returned matrix.
Outcome(c, ret) ==
    [c |-> c, ret |-> ret, recenter |-> 0, base |-> NoCall, tried |-> <<>>,
     commits |-> 0, accepted |-> FALSE, eye |-> Zero3, committed |-> NoMatrix,
     out |-> NoMatrix]

\* ------------------------------------------------------------------------
\* osgGA::StandardManipulator / TerrainManipulator members the class uses
\* ------------------------------------------------------------------------
\* fixVerticalAxis(rotation, localUp, disallowFlipOver): the rotation with
\* the camera's right vector turned into the plane orthogonal to localUp.
fixVerticalAxis(rotation, localUp, disallowFlipOver) ==
    LET cameraUp == QRot(rotation, Y_AXIS)
        cameraRight == QRot(rotation, X_AXIS)
        cameraForward == QRot(rotation, <<0, 0, -1>>)
        newCameraRight1 == VCross(cameraForward, localUp)
        newCameraRight2 == VCross(cameraUp, localUp)
        chosen == IF VLength2(newCameraRight1) > VLength2(newCameraRight2)
                  THEN newCameraRight1 ELSE newCameraRight2
        newCameraRight == IF VDot(chosen, cameraRight) < 0 THEN VNeg(chosen) ELSE chosen
        corrected == QMul(rotation, QFromTo(cameraRight, newCameraRight))
        newCameraUp == VCross(newCameraRight, cameraForward)
    IN  IF disallowFlipOver /\ VDot(newCameraUp, localUp) < 0
        THEN QMul(QAngleAxis(2, Z_AXIS), corrected)
        ELSE corrected

\* getUpVector(getCoordinateFrame(position)): no coordinate system node is
\* attached, so the frame is the identity and up is +Z.
getUpVector(position) == Z_AXIS

\* addMouseEvent(ea): _ga_t1 = _ga_t0; _ga_t0 = &ea.
addMouseEvent(c, ea) == [c EXCEPT !.t1 = c.t0, !.t0 = ea]

\* setByMatrix that takes the matrix's translation (the eye) for _center.
setByMatrix_EyeAsCenter(c, matrix) ==
    [c EXCEPT !.center = MPoint(Zero3, matrix),
              !.rotation = IF c.vfixed
                           THEN fixVerticalAxis(MGetRotate(matrix), Z_AXIS, TRUE)
                           ELSE MGetRotate(matrix)]

\* setByMatrix(matrix)
setByMatrix(c, matrix) ==
    LET center == MPoint(<<0, 0, -c.distance>>, matrix)
        rotation == MGetRotate(matrix)
    IN  [c EXCEPT !.center = center,
                  !.rotation = IF c.vfixed
                               THEN fixVerticalAxis(rotation, getUpVector(center), TRUE)
                               ELSE rotation]

\* getMatrix()
getMatrix(c) ==
    IF c.mode = MODE_TERRAIN
    THEN MMul(MMul(MTranslate(<<0, 0, c.distance>>), MRotate(c.rotation)),
              MTranslate(c.center))
    ELSE LET eye == ToVec3f(VSub(c.center, QRot(c.rotation, <<0, 0, -c.distance>>)))
         IN  MMul(MRotate(c.rotation), MTranslate(eye))

\* getInverseMatrix that turns by _rotation, not by its inverse.
getInverseMatrix_NotInverted(c) ==
    IF c.mode = MODE_TERRAIN
    THEN MMul(MMul(MTranslate(VNeg(c.center)), MRotate(c.rotation)),
              MTranslate(<<0, 0, -c.distance>>))
    ELSE LET eye == ToVec3f(VSub(c.center, QRot(c.rotation, <<0, 0, -c.distance>>)))
         IN  MMul(MTranslate(VNeg(eye)), MRotate(c.rotation))

\* getInverseMatrix()
getInverseMatrix(c) ==
    IF c.mode = MODE_TERRAIN
    THEN MMul(MMul(MTranslate(VNeg(c.center)), MRotate(QInverse(c.rotation))),
              MTranslate(<<0, 0, -c.distance>>))
    ELSE LET eye == ToVec3f(VSub(c.center, QRot(c.rotation, <<0, 0, -c.distance>>)))
         IN  MMul(MTranslate(VNeg(eye)), MRotate(QInverse(c.rotation)))

\* osgGA::TerrainManipulator::performMovementMiddleMouseButton: pans
\* _center in the plane orthogonal to up, along the camera's side and
\* forward directions; returns true.
TerrainPerformMovementMiddleMouseButton(c, dt, dx, dy) ==
    LET localUp == getUpVector(c.center)
        forwardVector == VCross(localUp, QRot(c.rotation, X_AXIS))
        sideVector == VCross(forwardVector, localUp)
        dv == VAdd(VScale(-dy, forwardVector), VScale(-dx, sideVector))
    IN  [Outcome([c EXCEPT !.center = VAdd(c.center, dv)], TRUE)
            EXCEPT !.base = [name |-> "TerrainManipulator::performMovementMiddleMouseButton",
                             dt |-> dt, dx |-> dx, dy |-> dy]]

\* osgGA::OrbitManipulator::performMovementLeftMouseButton: turns _rotation
\* about _center (yaw about up, pitch about the camera's right vector),
\* re-levelled when the vertical axis is fixed; returns true.
TerrainPerformMovementLeftMouseButton(c, dt, dx, dy) ==
    LET localUp == getUpVector(c.center)
        turned == QMul(QMul(c.rotation, QAngleAxis(-dx, localUp)),
                       QAngleAxis(dy, QRot(c.rotation, X_AXIS)))
        newRotation == IF c.vfixed THEN fixVerticalAxis(turned, localUp, TRUE) ELSE turned
    IN  [Outcome([c EXCEPT !.rotation = newRotation], TRUE)
            EXCEPT !.base = [name |-> "TerrainManipulator::performMovementLeftMouseButton",
                             dt |-> dt, dx |-> dx, dy |-> dy]]

\* osgGA::TerrainManipulator::performMovementRightMouseButton: zooms, i.e.
\* changes _distance with dy and never below the minimum; returns true.
TerrainPerformMovementRightMouseButton(c, dt, dx, dy) ==
    LET newDistance == IF c.distance + dy >= 1 THEN c.distance + dy ELSE c.distance
    IN  [Outcome([c EXCEPT !.distance = newDistance], TRUE)
            EXCEPT !.base = [name |-> "TerrainManipulator::performMovementRightMouseButton",
                             dt |-> dt, dx |-> dx, dy |-> dy]]

\* ------------------------------------------------------------------------
\* GUIOSGManipulator
\* ------------------------------------------------------------------------
\* The left button without the swap: the base class's left-button movement.
performMovementLeftMouseButton_Unswapped(c, eventTimeDelta, dx, dy) ==
    IF c.mode = MODE_TERRAIN
    THEN TerrainPerformMovementLeftMouseButton(c, eventTimeDelta, dx, dy)
    ELSE Outcome(c, FALSE)

performMovementLeftMouseButton(c, eventTimeDelta, dx, dy) ==
    IF c.mode = MODE_TERRAIN
    THEN TerrainPerformMovementMiddleMouseButton(c, eventTimeDelta, dx, dy)
    ELSE Outcome(c, FALSE)

performMovementMiddleMouseButton(c, eventTimeDelta, dx, dy) ==
    IF c.mode = MODE_TERRAIN
    THEN TerrainPerformMovementLeftMouseButton(c, eventTimeDelta, dx, dy)
    ELSE Outcome(c, FALSE)

performMovementRightMouseButton(c, eventTimeDelta, dx, dy) ==
    IF c.mode = MODE_TERRAIN
    THEN TerrainPerformMovementRightMouseButton(c, eventTimeDelta, dx, -dy)
    ELSE Outcome(c, FALSE)

\* my_dy /= 2. -- exact on the angles the model feeds (see PitchGrain).
Halve(my_dy) == my_dy \div 2

\* The hemisphere test with >= for >.
HemisphereOk_NotStrict(newRotation, localUp) ==
    VDot(QRot(newRotation, Y_AXIS), localUp) >= 0

\* newCameraUp * localUp > 0.
HemisphereOk(newRotation, localUp) == VDot(QRot(newRotation, Y_AXIS), localUp) > 0

\* The loop with a fallback that keeps the last pitch tried.
RECURSIVE rotateYawPitchLoop_PitchKept(_, _, _, _, _, _, _, _, _)
rotateYawPitchLoop_PitchKept(c, rotation, rotateYaw, cameraRight, eye, localUp, my_dy, i, tried) ==
    LET newRotation == QMul(QMul(rotation, rotateYaw), QAngleAxis(my_dy, cameraRight))
        accept == MMul(MRotate(newRotation), MTranslate(eye))
        now == Append(tried, my_dy)
    IN  IF HemisphereOk(newRotation, localUp) \/ i + 1 = MaxTries
        THEN [Outcome(setByMatrix(c, accept), TRUE)
                EXCEPT !.tried = now, !.commits = 1,
                       !.accepted = HemisphereOk(newRotation, localUp),
                       !.eye = eye, !.committed = accept]
        ELSE rotateYawPitchLoop_PitchKept(c, rotation, rotateYaw, cameraRight, eye,
                                          localUp, Halve(my_dy), i + 1, now)

\* The do-while loop of rotateYawPitch from its i-th pass on.  rotation is
\* the reference parameter, which the caller binds to _rotation.
RECURSIVE rotateYawPitchLoop(_, _, _, _, _, _, _, _, _)
rotateYawPitchLoop(c, rotation, rotateYaw, cameraRight, eye, localUp, my_dy, i, tried) ==
    LET verticalAxisFixed == localUp # Zero3
        rotatePitch == QAngleAxis(my_dy, cameraRight)
        composed == QMul(QMul(rotation, rotateYaw), rotatePitch)
        newRotation == IF verticalAxisFixed
                       THEN fixVerticalAxis(composed, localUp, FALSE)
                       ELSE composed
        accept == MMul(MRotate(newRotation), MTranslate(eye))
        fallback == MMul(MMul(MRotate(rotation), MRotate(rotateYaw)), MTranslate(eye))
        now == Append(tried, my_dy)
    IN  IF HemisphereOk(newRotation, localUp)
        THEN [Outcome(setByMatrix(c, accept), TRUE)
                EXCEPT !.tried = now, !.commits = 1, !.accepted = TRUE,
                       !.eye = eye, !.committed = accept]
        ELSE IF i + 1 = MaxTries
        THEN [Outcome(setByMatrix(c, fallback), TRUE)
                EXCEPT !.tried = now, !.commits = 1, !.accepted = FALSE,
                       !.eye = eye, !.committed = fallback]
        ELSE rotateYawPitchLoop(c, rotation, rotateYaw, cameraRight, eye, localUp,
                                Halve(my_dy), i + 1, now)

\* rotateYawPitch with the eye taken before the first fixVerticalAxis.
rotateYawPitch_EyeFirst(c, yaw, pitch, localUp) ==
    LET verticalAxisFixed == localUp # Zero3
        eye == ToVec3f(VSub(c.center, QRot(c.rotation, <<0, 0, -c.distance>>)))
        fixed == IF verticalAxisFixed
                 THEN [c EXCEPT !.rotation = fixVerticalAxis(c.rotation, localUp, TRUE)]
                 ELSE c
        rotation == fixed.rotation
        rotateYaw == QAngleAxis(-yaw, IF verticalAxisFixed THEN localUp
                                      ELSE QRot(rotation, Y_AXIS))
        cameraRight == QRot(rotation, X_AXIS)
    IN  rotateYawPitchLoop(fixed, rotation, rotateYaw, cameraRight, eye, localUp,
                           pitch, 0, <<>>)

\* rotateYawPitch(rotation, yaw, pitch, localUp), called with rotation
\* bound to _rotation: the first fixVerticalAxis writes through it.
rotateYawPitch(c, yaw, pitch, localUp) ==
    LET verticalAxisFixed == localUp # Zero3
        fixed == IF verticalAxisFixed
                 THEN [c EXCEPT !.rotation = fixVerticalAxis(c.rotation, localUp, TRUE)]
                 ELSE c
        rotation == fixed.rotation
        rotateYaw == QAngleAxis(-yaw, IF verticalAxisFixed THEN localUp
                                      ELSE QRot(rotation, Y_AXIS))
        cameraRight == QRot(rotation, X_AXIS)
        eye == ToVec3f(VSub(fixed.center, QRot(fixed.rotation, <<0, 0, -fixed.distance>>)))
    IN  rotateYawPitchLoop(fixed, rotation, rotateYaw, cameraRight, eye, localUp,
                           pitch, 0, <<>>)

performMouseDeltaMovement(c, dx, dy) ==
    [rotateYawPitch(c, dx, dy, Z_AXIS) EXCEPT !.ret = TRUE]

\* centerMousePointer(ea, aa): one requestWarpPointer to the window centre.
centerMousePointer(o) == [o EXCEPT !.recenter = @ + 1]

\* handleMouseDeltaMovement that does not store the event.
handleMouseDeltaMovement_NoAdd(c, ea) ==
    LET dt == c.t0.t - c.t1.t
        dx == ToFloat(c.t0.x * dt)
        dy == ToFloat(c.t0.y * dt)
    IN  IF c.t0 = NoEvent \/ c.t1 = NoEvent THEN Outcome(c, FALSE)
        ELSE IF dx = 0 /\ dy = 0 THEN Outcome(c, FALSE)
        ELSE centerMousePointer(performMouseDeltaMovement(c, dx, dy))

\* handleMouseDeltaMovement taking the difference of the two samples.
handleMouseDeltaMovement_SampleDelta(c, ea) ==
    LET added == addMouseEvent(c, ea)
        dt == added.t0.t - added.t1.t
        dx == ToFloat((added.t0.x - added.t1.x) * dt)
        dy == ToFloat((added.t0.y - added.t1.y) * dt)
    IN  IF added.t0 = NoEvent \/ added.t1 = NoEvent THEN Outcome(added, FALSE)
        ELSE IF dx = 0 /\ dy = 0 THEN Outcome(added, FALSE)
        ELSE centerMousePointer(performMouseDeltaMovement(added, dx, dy))

\* handleMouseDeltaMovement that warps the pointer before the zero test.
handleMouseDeltaMovement_WarpFirst(c, ea) ==
    LET added == addMouseEvent(c, ea)
        dt == added.t0.t - added.t1.t
        dx == ToFloat(added.t0.x * dt)
        dy == ToFloat(added.t0.y * dt)
    IN  IF added.t0 = NoEvent \/ added.t1 = NoEvent THEN Outcome(added, FALSE)
        ELSE IF dx = 0 /\ dy = 0 THEN centerMousePointer(Outcome(added, FALSE))
        ELSE centerMousePointer(performMouseDeltaMovement(added, dx, dy))

handleMouseDeltaMovement(c, ea) ==
    LET added == addMouseEvent(c, ea)
        dt == added.t0.t - added.t1.t
        dx == ToFloat(added.t0.x * dt)
        dy == ToFloat(added.t0.y * dt)
    IN  IF added.t0 = NoEvent \/ added.t1 = NoEvent THEN Outcome(added, FALSE)
        ELSE IF dx = 0 /\ dy = 0 THEN Outcome(added, FALSE)
        ELSE centerMousePointer(performMouseDeltaMovement(added, dx, dy))

\* handleMouseMove that serves MODE_EGO alone.
handleMouseMove_EgoOnly(c, ea) ==
    IF c.mode = MODE_EGO THEN handleMouseDeltaMovement(c, ea) ELSE Outcome(c, FALSE)

\* handleMouseMove without the mode test.
handleMouseMove_AnyMode(c, ea) == handleMouseDeltaMovement(c, ea)

handleMouseMove(c, ea) ==
    IF c.mode = MODE_EGO \/ c.mode = MODE_WALK
    THEN handleMouseDeltaMovement(c, ea)
    ELSE Outcome(c, FALSE)

\* handleKeyDown that moves _center by myMove itself, not turned.
handleKeyDown_Unrotated(c, key) ==
    LET moved == CASE key = KEY_Up -> [c.move EXCEPT ![3] = @ - myMoveSpeed]
                   [] key = KEY_Down -> [c.move EXCEPT ![3] = @ + myMoveSpeed]
                   [] key = KEY_Right -> [c.move EXCEPT ![1] = @ + myMoveSpeed]
                   [] key = KEY_Left -> [c.move EXCEPT ![1] = @ - myMoveSpeed]
                   [] OTHER -> c.move
    IN  Outcome([c EXCEPT !.move = moved, !.center = VAdd(@, moved)],
                key \in {KEY_Up, KEY_Down, KEY_Right, KEY_Left})

\* handleKeyDown that updates myMove and leaves _center to someone else.
handleKeyDown_NoTranslate(c, key) ==
    LET moved == CASE key = KEY_Up -> [c.move EXCEPT ![3] = @ - myMoveSpeed]
                   [] key = KEY_Down -> [c.move EXCEPT ![3] = @ + myMoveSpeed]
                   [] key = KEY_Right -> [c.move EXCEPT ![1] = @ + myMoveSpeed]
                   [] key = KEY_Left -> [c.move EXCEPT ![1] = @ - myMoveSpeed]
                   [] OTHER -> c.move
    IN  Outcome([c EXCEPT !.move = moved],
                key \in {KEY_Up, KEY_Down, KEY_Right, KEY_Left})

\* handleKeyDown whose KEY_Up case adds myMoveSpeed.
handleKeyDown_UpAdds(c, key) ==
    LET moved == CASE key = KEY_Up -> [c.move EXCEPT ![3] = @ + myMoveSpeed]
                   [] key = KEY_Down -> [c.move EXCEPT ![3] = @ + myMoveSpeed]
                   [] key = KEY_Right -> [c.move EXCEPT ![1] = @ + myMoveSpeed]
                   [] key = KEY_Left -> [c.move EXCEPT ![1] = @ - myMoveSpeed]
                   [] OTHER -> c.move
        result == key \in {KEY_Up, KEY_Down, KEY_Right, KEY_Left}
        c1 == [c EXCEPT !.move = moved]
    IN  Outcome([c1 EXCEPT !.center = VAdd(@, QRot(MGetRotate(getMatrix(c1)), c1.move))],
                result)

\* handleKeyDown that also switches the mode on KEY_F.
handleKeyDown_Toggles(c, key) ==
    LET moved == CASE key = KEY_Up -> [c.move EXCEPT ![3] = @ - myMoveSpeed]
                   [] key = KEY_Down -> [c.move EXCEPT ![3] = @ + myMoveSpeed]
                   [] key = KEY_Right -> [c.move EXCEPT ![1] = @ + myMoveSpeed]
                   [] key = KEY_Left -> [c.move EXCEPT ![1] = @ - myMoveSpeed]
                   [] OTHER -> c.move
        result == key \in {KEY_Up, KEY_Down, KEY_Right, KEY_Left}
        c1 == [c EXCEPT !.move = moved,
                        !.mode = IF key # KEY_F THEN @
                                 ELSE IF @ = MODE_TERRAIN THEN MODE_EGO ELSE MODE_TERRAIN]
    IN  Outcome([c1 EXCEPT !.center = VAdd(@, QRot(MGetRotate(getMatrix(c1)), c1.move))],
                result)

handleKeyDown(c, key) ==
    LET moved == CASE key = KEY_Up -> [c.move EXCEPT ![3] = @ - myMoveSpeed]
                   [] key = KEY_Down -> [c.move EXCEPT ![3] = @ + myMoveSpeed]
                   [] key = KEY_Right -> [c.move EXCEPT ![1] = @ + myMoveSpeed]
                   [] key = KEY_Left -> [c.move EXCEPT ![1] = @ - myMoveSpeed]
                   [] OTHER -> c.move
        result == key \in {KEY_Up, KEY_Down, KEY_Right, KEY_Left}
        c1 == [c EXCEPT !.move = moved]
    IN  Outcome([c1 EXCEPT !.center = VAdd(@, QRot(MGetRotate(getMatrix(c1)), c1.move))],
                result)

\* handleKeyUp with MODE_WALK enabled in the cycle (Ego -> Walk).
handleKeyUp_WalkEnabled(c, key) ==
    CASE key \in {KEY_Up, KEY_Down, KEY_Right, KEY_Left} ->
            Outcome([c EXCEPT !.move = Zero3], TRUE)
      [] key = KEY_F ->
            Outcome([c EXCEPT !.mode = IF c.mode = MODE_EGO THEN MODE_WALK
                                       ELSE IF c.mode = MODE_WALK THEN MODE_TERRAIN
                                       ELSE MODE_EGO],
                    TRUE)
      [] OTHER -> Outcome(c, FALSE)

\* handleKeyUp with Terrain -> Walk instead of Terrain -> Ego.
handleKeyUp_TerrainToWalk(c, key) ==
    CASE key \in {KEY_Up, KEY_Down, KEY_Right, KEY_Left} ->
            Outcome([c EXCEPT !.move = Zero3], TRUE)
      [] key = KEY_F ->
            Outcome([c EXCEPT !.mode = IF c.mode = MODE_TERRAIN THEN MODE_WALK
                                       ELSE MODE_TERRAIN],
                    TRUE)
      [] OTHER -> Outcome(c, FALSE)

\* handleKeyUp clearing only the released key's axis.
handleKeyUp_OneAxis(c, key) ==
    CASE key \in {KEY_Up, KEY_Down} -> Outcome([c EXCEPT !.move[3] = 0], TRUE)
      [] key \in {KEY_Right, KEY_Left} -> Outcome([c EXCEPT !.move[1] = 0], TRUE)
      [] key = KEY_F ->
            Outcome([c EXCEPT !.mode = IF c.mode = MODE_TERRAIN THEN MODE_EGO
                                       ELSE MODE_TERRAIN],
                    TRUE)
      [] OTHER -> Outcome(c, FALSE)

handleKeyUp(c, key) ==
    CASE key \in {KEY_Up, KEY_Down, KEY_Right, KEY_Left} ->
            Outcome([c EXCEPT !.move = Zero3], TRUE)
      [] key = KEY_F ->
            Outcome([c EXCEPT !.mode = IF c.mode = MODE_EGO THEN MODE_TERRAIN
                                       ELSE IF c.mode = MODE_WALK THEN MODE_TERRAIN
                                       ELSE MODE_EGO],
                    TRUE)
      [] OTHER -> Outcome(c, FALSE)

\* A frame event.  The class has no handler of its own for it: it goes to
\* osgGA::StandardManipulator::handleFrame, which moves the camera only
\* while it is thrown, and the constructor sets setAllowThrow(false).
\* Returns false.
handleFrame(c) == Outcome(c, FALSE)

\* ------------------------------------------------------------------------
\* Inputs
\* ------------------------------------------------------------------------
\* Pitch angles are multiples of 2^(MaxTries-1) quarter turns, so that each
\* of the 19 halvings between two candidates is exact and every candidate
\* is a whole number of quarter turns.
PitchGrain == 2 ^ (MaxTries - 1)
\* Pointer events: normalized coordinates and a timestamp.
PointerEvents == [x : {0, 1}, y : {0, PitchGrain}, t : 0..MaxTime]
\* Pointer drags: (dt, dx, dy), angles in quarter turns.
Buttons == {"left", "middle", "right"}
DragDeltas == {<<1, 1, 0>>, <<2, 1, -1>>}
\* Matrices handed to setByMatrix by the view: a level, a horizontal, a
\* rolled and an upside-down orientation, moved off the origin.
QGenY == QAngleAxis(1, Y_AXIS)
GivenMatrices ==
    {MMul(MRotate(q), MTranslate(<<1, 0, 1>>)) :
        q \in {QIdentity, QGenX, QGenY, QAngleAxis(-1, X_AXIS)}}

\* ------------------------------------------------------------------------
\* The state machine
\* ------------------------------------------------------------------------
\* The fields of the manipulator, and the calls made on it so far, oldest
\* first: each with its name, its argument, the fields before it (pre) and
\* its Outcome (c: the fields after it).
VARIABLES myCurrentMode, _center, _rotation, _distance, myMove, _ga_t0, _ga_t1,
          verticalAxisFixed, calls

vars == <<myCurrentMode, _center, _rotation, _distance, myMove, _ga_t0, _ga_t1,
          verticalAxisFixed, calls>>

\* The manipulator's fields.
Self ==
    [mode |-> myCurrentMode, center |-> _center, rotation |-> _rotation,
     distance |-> _distance, move |-> myMove, t0 |-> _ga_t0, t1 |-> _ga_t1,
     vfixed |-> verticalAxisFixed]

Call(op, arg, pre, o) ==
    [op |-> op, arg |-> arg, pre |-> pre, c |-> o.c, ret |-> o.ret,
     recenter |-> o.recenter, base |-> o.base, tried |-> o.tried,
     commits |-> o.commits, accepted |-> o.accepted, eye |-> o.eye,
     committed |-> o.committed, out |-> o.out]

InBox(v) == \A k \in 1..3 : Abs(v[k]) <= MaxCoord
InBounds(c) ==
    /\ InBox(c.center) \/ c.center = _center
    /\ \A k \in 1..3 : Abs(c.move[k]) <= MaxMove
    /\ c.distance <= MaxDist \/ c.distance = _distance

\* The fields take the values of the record c.
Becomes(c) ==
    /\ myCurrentMode' = c.mode
    /\ _center' = c.center
    /\ _rotation' = c.rotation
    /\ _distance' = c.distance
    /\ myMove' = c.move
    /\ _ga_t0' = c.t0
    /\ _ga_t1' = c.t1
    /\ verticalAxisFixed' = c.vfixed

\* One call returns: the fields take the values it left, within the bounds.
Returns(op, arg, outcome) ==
    \E o \in {outcome} :
        /\ InBounds(o.c)
        /\ Becomes(o.c)
        /\ calls' = Append(calls, Call(op, arg, Self, o))

\* The fields GUIOSGManipulator(initMode, verticalFixed, eyeHeight) leaves:
\* the two it sets, and the defaults of the base classes and members.
Constructed(initMode, verticalFixed) ==
    [mode |-> initMode, center |-> Zero3, rotation |-> QIdentity, distance |-> 1,
     move |-> Zero3, t0 |-> NoEvent, t1 |-> NoEvent, vfixed |-> verticalFixed]

\* The fields have the values of the record c.
Is(c) ==
    /\ myCurrentMode = c.mode
    /\ _center = c.center
    /\ _rotation = c.rotation
    /\ _distance = c.distance
    /\ myMove = c.move
    /\ _ga_t0 = c.t0
    /\ _ga_t1 = c.t1
    /\ verticalAxisFixed = c.vfixed

Init ==
    /\ \E initMode \in ManipulatorMode, verticalFixed \in BOOLEAN :
          Is(Constructed(initMode, verticalFixed))
    /\ calls = <<>>

\* The call op(arg), as the actions below make it, made on the manipulator
\* with fields c.  The calls that return no bool (getMatrix,
\* getInverseMatrix, setByMatrix) carry FALSE.
Apply(c, op, arg) ==
    CASE op = "performMovement" ->
            ( CASE arg[1] = "left" ->
                      performMovementLeftMouseButton(c, arg[2], arg[3], arg[4])
                [] arg[1] = "middle" ->
                      performMovementMiddleMouseButton(c, arg[2], arg[3], arg[4])
                [] OTHER ->
                      performMovementRightMouseButton(c, arg[2], arg[3], arg[4]) )
      [] op = "handleMouseMove" -> handleMouseMove(c, arg)
      [] op = "handleKeyDown" -> handleKeyDown(c, arg)
      [] op = "handleKeyUp" -> handleKeyUp(c, arg)
      [] op = "handleFrame" -> handleFrame(c)
      [] op = "getMatrix" -> [Outcome(c, FALSE) EXCEPT !.out = getMatrix(c)]
      [] op = "getInverseMatrix" -> [Outcome(c, FALSE) EXCEPT !.out = getInverseMatrix(c)]
      [] OTHER -> Outcome(setByMatrix(c, arg), FALSE)

\* One action per call the view makes.
PointerDrag ==
    \E button \in Buttons, d \in DragDeltas :
        LET arg == <<button, d[1], d[2], d[3]>>
        IN  Returns("performMovement", arg,
                    CASE button = "left" ->
                            performMovementLeftMouseButton(Self, d[1], d[2], d[3])
                      [] button = "middle" ->
                            performMovementMiddleMouseButton(Self, d[1], d[2], d[3])
                      [] OTHER ->
                            performMovementRightMouseButton(Self, d[1], d[2], d[3]))

PointerMove ==
    \E ea \in PointerEvents : Returns("handleMouseMove", ea, handleMouseMove(Self, ea))

KeyDown == \E key \in Keys : Returns("handleKeyDown", key, handleKeyDown(Self, key))

KeyUp == \E key \in Keys : Returns("handleKeyUp", key, handleKeyUp(Self, key))

Frame == Returns("handleFrame", <<>>, handleFrame(Self))

GetMatrix ==
    Returns("getMatrix", <<>>, [Outcome(Self, FALSE) EXCEPT !.out = getMatrix(Self)])

GetInverseMatrix ==
    Returns("getInverseMatrix", <<>>,
            [Outcome(Self, FALSE) EXCEPT !.out = getInverseMatrix(Self)])

SetByGiven(matrix) ==
    Returns("setByMatrix", matrix, Outcome(setByMatrix(Self, matrix), FALSE))

SetByMatrix == \E matrix \in GivenMatrices : SetByGiven(matrix)

\* The view makes at most MaxCalls calls, of any kind and in any order.
Next ==
    /\ Len(calls) < MaxCalls
    /\ \/ PointerDrag
       \/ PointerMove
       \/ KeyDown
       \/ KeyUp
       \/ GetMatrix
       \/ GetInverseMatrix
       \/ SetByMatrix

Spec == Init /\ [][Next]_vars

\* A keyboard session: the view may set the camera first; then key events
\* and frames, at most MaxKeyCalls calls in all.
NextKeys ==
    /\ Len(calls) < MaxKeyCalls
    /\ \/ KeyDown
       \/ KeyUp
       \/ Frame
       \/ Len(calls) = 0 /\ SetByMatrix

SpecKeys == Init /\ [][NextKeys]_vars

\* The view sets any of the 24 orientations, then moves the pointer twice.
SetByAnyMatrix ==
    \E q \in Rotations :
        SetByGiven(MMul(MRotate(q), MTranslate(<<1, 0, 1>>)))

NextLook ==
    \/ Len(calls) = 0 /\ SetByAnyMatrix
    \/ Len(calls) \in {1, 2} /\ PointerMove

SpecLook == Init /\ [][NextLook]_vars

\* The view takes the matrices of a manipulator in any mode, at any of the
\* centers ViewCenters, in any orientation and at any distance up to
\* MaxViewDist (with the vertical axis fixed, _rotation is levelled: every
\* writer of _rotation re-levels it then), hands getMatrix()'s result back
\* to setByMatrix, or toggles the mode and takes the matrix again.
\* _center is a Vec3d: FarCenters are centers with a coordinate that a
\* double holds and a float does not (the least such integer is 2^24 + 1).
FarCenters == {<<2 ^ 24 + 1, 0, 0>>, <<0, -(2 ^ 24 + 1), MaxCoord>>}
ViewCenters == {<<x, y, z>> : x, y, z \in {-MaxCoord, 0, MaxCoord}} \cup FarCenters
Levelled(rotation) == fixVerticalAxis(rotation, Z_AXIS, TRUE) = rotation

InitView ==
    /\ \E mode \in ManipulatorMode, center \in ViewCenters, rotation \in Rotations,
          distance \in 1..MaxViewDist, verticalFixed \in BOOLEAN :
          /\ verticalFixed => Levelled(rotation)
          /\ Is([Constructed(mode, verticalFixed)
                    EXCEPT !.center = center, !.rotation = rotation,
                           !.distance = distance])
    /\ calls = <<>>

SetByOwnMatrix == SetByGiven(calls[Len(calls)].out)

Toggle == Returns("handleKeyUp", KEY_F, handleKeyUp(Self, KEY_F))

NextView ==
    \/ Len(calls) = 0 /\ GetMatrix
    \/ Len(calls) = 0 /\ GetInverseMatrix
    \/ Len(calls) = 1 /\ calls[1].op = "getMatrix" /\ SetByOwnMatrix
    \/ Len(calls) = 1 /\ calls[1].op = "getMatrix" /\ Toggle
    \/ Len(calls) = 2 /\ calls[2].op = "handleKeyUp" /\ GetMatrix

SpecView == InitView /\ [][NextView]_vars

\* ------------------------------------------------------------------------
\* Properties
\* ------------------------------------------------------------------------
\* The call made last.
Last == calls[Len(calls)]
IsToggle(k) == k.op = "handleKeyUp" /\ k.arg = KEY_F

\* C1: a key-up of KEY_F returns true and takes the mode from Ego to
\* Terrain, from Walk to Terrain and from Terrain to Ego; two toggles in a
\* row that start in Ego pass through Terrain and end in Ego.
C1_ToggleCycle ==
    calls # <<>> /\ IsToggle(Last) =>
        /\ Last.ret = TRUE
        /\ myCurrentMode = Last.c.mode
        /\ Last.pre.mode = MODE_EGO => myCurrentMode = MODE_TERRAIN
        /\ Last.pre.mode = MODE_WALK => myCurrentMode = MODE_TERRAIN
        /\ Last.pre.mode = MODE_TERRAIN => myCurrentMode = MODE_EGO
        /\ Len(calls) >= 2 /\ IsToggle(calls[Len(calls) - 1])
             /\ calls[Len(calls) - 1].pre.mode = MODE_EGO
           => Last.pre.mode = MODE_TERRAIN /\ myCurrentMode = MODE_EGO

C1_Witness ==
    /\ Len(calls) = 2
    /\ IsToggle(calls[1]) /\ calls[1].pre.mode = MODE_EGO
    /\ IsToggle(calls[2]) /\ calls[2].pre.mode = MODE_TERRAIN
    /\ myCurrentMode = MODE_EGO

\* C2: a call that starts in a mode other than Walk never ends in Walk, so
\* a manipulator constructed in Ego or Terrain is never in Walk, and one
\* constructed in Walk is never in Walk again after it has left it.
C2_WalkUnreachable ==
    /\ \A i \in 1..Len(calls) :
          calls[i].pre.mode # MODE_WALK =>
              calls[i].c.mode # MODE_WALK /\ myCurrentMode # MODE_WALK
    /\ calls # <<>> /\ calls[1].pre.mode # MODE_WALK => myCurrentMode # MODE_WALK

C2_Witness ==
    /\ Len(calls) = 2
    /\ calls[1].pre.mode = MODE_WALK /\ calls[1].c.mode = MODE_TERRAIN
    /\ IsToggle(calls[2])
    /\ myCurrentMode = MODE_EGO

\* C3: a key-up of Up, Down, Left or Right returns true and leaves myMove
\* at (0,0,0), whatever myMove was.
C3_KeyUpClearsMove ==
    calls # <<>> /\ Last.op = "handleKeyUp" /\ Last.arg \in MoveKeys =>
        /\ Last.ret = TRUE
        /\ Last.c.move = Zero3
        /\ myMove = Zero3

\* Up and Right are held; Up is released.
C3_Witness ==
    /\ Len(calls) = 3
    /\ calls[1].op = "handleKeyDown" /\ calls[1].arg = KEY_Up
    /\ calls[2].op = "handleKeyDown" /\ calls[2].arg = KEY_Right
    /\ calls[3].op = "handleKeyUp" /\ calls[3].arg = KEY_Up
    /\ calls[3].pre.move = <<myMoveSpeed, 0, -myMoveSpeed>>
    /\ myMove = Zero3

\* C4: a pointer drag outside Terrain mode, and a pointer move in Terrain
\* mode, return false, change no field, emit no warp-pointer request and
\* invoke no base-class movement.
C4_OutOfModeNoOp ==
    calls # <<>> /\ ( \/ Last.op = "performMovement" /\ Last.pre.mode # MODE_TERRAIN
                      \/ Last.op = "handleMouseMove" /\ Last.pre.mode = MODE_TERRAIN ) =>
        /\ Last.ret = FALSE
        /\ Last.c = Last.pre
        /\ Self = Last.pre
        /\ Last.recenter = 0
        /\ Last.base = NoCall
        /\ Last.commits = 0

\* A right-button drag in Ego mode, after a pointer sample was stored.
C4_Witness ==
    /\ Len(calls) = 2
    /\ calls[1].op = "handleMouseMove" /\ calls[1].pre.mode = MODE_EGO
    /\ calls[2].op = "performMovement" /\ calls[2].pre.mode = MODE_EGO
    /\ calls[2].arg[1] = "right"
    /\ _ga_t0 # NoEvent

\* The call made last is a pointer move handled in Ego or Walk mode.
LastIsLook ==
    /\ calls # <<>>
    /\ Last.op = "handleMouseMove"
    /\ Last.pre.mode \in {MODE_EGO, MODE_WALK}
\* The deltas of the pointer move made last, when a prior sample exists.
LastDx == ToFloat(Last.arg.x * (Last.arg.t - Last.pre.t0.t))
LastDy == ToFloat(Last.arg.y * (Last.arg.t - Last.pre.t0.t))

\* C5 (as claimed): in Ego or Walk mode a pointer move with no prior sample
\* returns false, changes no field -- the stored samples included -- and
\* emits no warp-pointer request.
C5_NoPriorNoChange ==
    LastIsLook /\ Last.pre.t0 = NoEvent =>
        /\ Last.ret = FALSE
        /\ Last.c = Last.pre
        /\ Last.recenter = 0

\* C5 (amended): in Ego or Walk mode a pointer move with no prior sample
\* returns false, emits no warp-pointer request, commits no transform and
\* changes no field except the stored samples: the event becomes _ga_t0.
C5_NoPriorOnlyStores ==
    LastIsLook /\ Last.pre.t0 = NoEvent =>
        /\ Last.ret = FALSE
        /\ Last.recenter = 0
        /\ Last.commits = 0
        /\ Last.c = [Last.pre EXCEPT !.t0 = Last.arg, !.t1 = NoEvent]
        /\ Self = Last.c

C5_Witness ==
    /\ LastIsLook
    /\ Last.pre.t0 = NoEvent
    /\ Last.arg.x = 1 /\ Last.arg.y = PitchGrain
    /\ _ga_t0 = Last.arg
    /\ _ga_t1 = NoEvent

\* The pointer move made last carries the coordinates of the one before
\* it, at another time.
LastRepeatsSample ==
    /\ LastIsLook
    /\ Last.pre.t0 # NoEvent
    /\ Last.arg.x = Last.pre.t0.x
    /\ Last.arg.y = Last.pre.t0.y
    /\ Last.arg.t # Last.pre.t0.t

\* C6 (as claimed): the second of two pointer moves with the same
\* coordinates and different timestamps returns false, leaves _center and
\* _rotation alone and emits no warp-pointer request, for every (x,y).
C6_SameSampleNotHandled ==
    LastRepeatsSample =>
        /\ Last.ret = FALSE
        /\ Last.c.center = Last.pre.center
        /\ Last.c.rotation = Last.pre.rotation
        /\ Last.recenter = 0

\* C6 (amended): the deltas are the coordinates of the newest sample times
\* dt, not a difference of samples.  The second of two pointer moves with
\* the same coordinates and different timestamps returns false, leaves
\* _center and _rotation alone and emits no warp-pointer request when
\* x * dt and y * dt are both zero, as they are for (0,0); otherwise it
\* returns true and warps the pointer.
C6_SameSampleHandledUnlessZero ==
    LastRepeatsSample =>
        /\ Last.ret = FALSE <=> (LastDx = 0 /\ LastDy = 0)
        /\ Last.arg.x = 0 /\ Last.arg.y = 0 => Last.ret = FALSE
        /\ Last.ret = FALSE =>
              /\ Last.c.center = Last.pre.center
              /\ Last.c.rotation = Last.pre.rotation
              /\ Last.recenter = 0
        /\ Last.ret = TRUE => Last.recenter = 1

C6_Witness ==
    /\ LastRepeatsSample
    /\ Last.arg.x = 0 /\ Last.arg.y = 0
    /\ Last.ret = FALSE
    /\ Last.pre.center = _center /\ Last.pre.rotation = _rotation

\* C7: a pointer move returns true exactly when the mode is Ego or Walk, a
\* prior sample exists and dx, dy are not both zero; it emits one
\* warp-pointer request and commits one rotation exactly when it returns
\* true, and none of either when it returns false.
C7_WarpIffHandled ==
    calls # <<>> /\ Last.op = "handleMouseMove" =>
        /\ Last.ret = TRUE <=>
              /\ Last.pre.mode \in {MODE_EGO, MODE_WALK}
              /\ Last.pre.t0 # NoEvent
              /\ ~(LastDx = 0 /\ LastDy = 0)
        /\ Last.recenter = IF Last.ret THEN 1 ELSE 0
        /\ Last.commits = IF Last.ret THEN 1 ELSE 0
        /\ Last.tried # <<>> <=> Last.ret = TRUE

C7_Witness ==
    /\ LastIsLook
    /\ Last.ret = TRUE
    /\ Last.recenter = 1
    /\ Last.commits = 1
    /\ LastDx # 0 /\ LastDy # 0

\* local up * upAxis of an orientation, for upAxis = osg::Z_AXIS.
UpDot(rotation) == VDot(QRot(rotation, Y_AXIS), Z_AXIS)
\* _rotation re-levelled and turned by the yaw of the pointer move made
\* last, without any pitch.
LastYawOnly ==
    QMul(fixVerticalAxis(Last.pre.rotation, Z_AXIS, TRUE), QAngleAxis(-LastDx, Z_AXIS))

\* C8: every rotateYawPitch call commits exactly one transform; its k-th
\* candidate has pitch / 2^(k-1); it tries at most 20, and when all fail it
\* has tried exactly 20 and commits rotation * yaw, with no pitch, at the
\* eye.
C8_TwentyTriesThenYawOnly ==
    LastIsLook /\ Last.ret = TRUE =>
        /\ Last.commits = 1
        /\ Len(Last.tried) \in 1..20
        /\ \A k \in 1..Len(Last.tried) : Last.tried[k] * 2 ^ (k - 1) = LastDy
        /\ ~Last.accepted =>
              /\ Len(Last.tried) = 20
              /\ Last.committed = MMul(MRotate(LastYawOnly), MTranslate(Last.eye))
              /\ _rotation = LastYawOnly

\* Twenty candidates of a non-zero pitch fail; the yaw alone is applied.
C8_Witness ==
    /\ LastIsLook /\ Last.ret = TRUE
    /\ ~Last.accepted
    /\ LastDy # 0 /\ LastDx # 0
    /\ Len(Last.tried) = 20
    /\ Last.tried[20] * 2 ^ 19 = LastDy
    /\ _rotation = LastYawOnly
    /\ _rotation # Last.pre.rotation

\* C9 (as claimed): after any rotateYawPitch call the orientation has
\* local up * upAxis > 0.
C9_AlwaysUpright ==
    LastIsLook /\ Last.ret = TRUE => UpDot(_rotation) > 0

\* C9 (amended): a candidate is committed as accepted only when its local
\* up * upAxis > 0, and the orientation is then left with local up *
\* upAxis > 0.  The yaw-only fallback is committed without that test: it
\* keeps the local up * upAxis of the re-levelled starting orientation.
C9_AcceptedUpright ==
    LastIsLook /\ Last.ret = TRUE =>
        /\ Last.accepted =>
              /\ UpDot(Last.committed.rot) > 0
              /\ UpDot(_rotation) > 0
        /\ ~Last.accepted =>
              UpDot(Last.committed.rot)
                  = UpDot(fixVerticalAxis(Last.pre.rotation, Z_AXIS, TRUE))

\* A candidate is accepted after 19 were rejected.
C9_Witness ==
    /\ LastIsLook /\ Last.ret = TRUE
    /\ Last.accepted
    /\ Len(Last.tried) = 20
    /\ UpDot(Last.pre.rotation) = 0
    /\ UpDot(_rotation) = 1

\* C10: a call other than the toggle, made on two manipulators that
\* differ in nothing but being in Walk and in Ego, returns the same and
\* leaves them differing in nothing but the mode; the toggle takes both to
\* Terrain.  (The call made last, made again on its twin.)
C10_WalkLikeEgo ==
    calls # <<>> /\ Last.pre.mode \in {MODE_EGO, MODE_WALK} =>
        LET other == IF Last.pre.mode = MODE_EGO THEN MODE_WALK ELSE MODE_EGO
            twin == Apply([Last.pre EXCEPT !.mode = other], Last.op, Last.arg)
        IN  /\ twin.ret = Last.ret
            /\ IF IsToggle(Last)
               THEN /\ Last.c.mode = MODE_TERRAIN
                    /\ twin.c = Last.c
               ELSE /\ Last.c.mode = Last.pre.mode
                    /\ twin.c = [Last.c EXCEPT !.mode = other]
                    /\ twin.out = Last.out
                    /\ twin.recenter = Last.recenter
                    /\ twin.base = Last.base
                    /\ twin.committed = Last.committed

\* A pointer move turns the camera of a manipulator in Walk mode.
C10_Witness ==
    /\ LastIsLook
    /\ Last.pre.mode = MODE_WALK
    /\ Last.ret = TRUE
    /\ myCurrentMode = MODE_WALK
    /\ _rotation # Last.pre.rotation

\* C11 (as claimed): getMatrix() returns, in Terrain mode, the transform
\* that moves a point by (0,0,_distance), turns it by _rotation and moves
\* it by _center
\* and, in Ego and Walk mode, the transform that turns by _rotation and
\* moves by eye = _center - _rotation * (0,0,-_distance); at distance 10,
\* center 0 and the identity rotation in Terrain mode that is
\* translate(0,0,10).  No field changes.
C11_ViewMatrixComposition ==
    calls # <<>> /\ Last.op = "getMatrix" =>
        LET pre == Last.pre
        IN  /\ Last.out.rot = pre.rotation
            /\ pre.mode = MODE_TERRAIN =>
                  Last.out.trans
                      = VAdd(QRot(pre.rotation, <<0, 0, pre.distance>>), pre.center)
            /\ pre.mode # MODE_TERRAIN =>
                  Last.out.trans
                      = VSub(pre.center, QRot(pre.rotation, <<0, 0, -pre.distance>>))
            /\ ( /\ pre.mode = MODE_TERRAIN
                 /\ pre.distance = 10
                 /\ pre.center = Zero3
                 /\ pre.rotation = QIdentity )
                  => Last.out = MTranslate(<<0, 0, 10>>)
            /\ Last.c = pre
            /\ Self = pre

\* The scenario: Terrain mode, distance 10, center 0, identity rotation.
C11_Witness ==
    /\ calls # <<>> /\ Last.op = "getMatrix"
    /\ myCurrentMode = MODE_TERRAIN
    /\ _distance = 10
    /\ _center = Zero3
    /\ _rotation = QIdentity
    /\ Last.out = [rot |-> QIdentity, trans |-> <<0, 0, 10>>]

\* C12: in every mode, getInverseMatrix() composed with getMatrix(), in
\* either order, is the identity transform.
C12_InverseViewMatrix ==
    calls # <<>> /\ Last.op = "getInverseMatrix" =>
        /\ MMul(getMatrix(Last.pre), Last.out) = MIdentity
        /\ MMul(Last.out, getMatrix(Last.pre)) = MIdentity

\* The inverse is taken in Ego mode of a manipulator turned a quarter turn
\* off its center.
C12_Witness ==
    /\ calls # <<>> /\ Last.op = "getInverseMatrix"
    /\ myCurrentMode = MODE_EGO
    /\ _rotation = QGenX
    /\ _center # Zero3
    /\ Last.out # getMatrix(Self)

\* C13: in Terrain mode, setByMatrix(getMatrix()) leaves _center, _rotation
\* and _distance as they were, with the vertical axis free and with it
\* fixed on a levelled rotation.
C13_OrbitRoundTrip ==
    ( /\ Len(calls) = 2
      /\ calls[1].op = "getMatrix"
      /\ Last.op = "setByMatrix"
      /\ Last.arg = calls[1].out
      /\ calls[1].pre.mode = MODE_TERRAIN
      /\ calls[1].pre.vfixed => Levelled(calls[1].pre.rotation) )
    => /\ _center = calls[1].pre.center
       /\ _rotation = calls[1].pre.rotation
       /\ _distance = calls[1].pre.distance

\* The round trip of a turned manipulator off the origin, axis fixed.
C13_Witness ==
    /\ Len(calls) = 2
    /\ calls[1].op = "getMatrix"
    /\ Last.op = "setByMatrix"
    /\ Last.arg = calls[1].out
    /\ myCurrentMode = MODE_TERRAIN
    /\ verticalAxisFixed
    /\ _rotation \notin {QIdentity, QGenZ}
    /\ _center # Zero3
    /\ _distance > 1

\* The index of the movement key-up made last (0: none yet), and the number
\* of key-downs of a key made since.
LastRelease ==
    LET S == {i \in 1..Len(calls) :
                 calls[i].op = "handleKeyUp" /\ calls[i].arg \in MoveKeys}
    IN  IF S = {} THEN 0 ELSE CHOOSE i \in S : \A j \in S : j <= i
Downs(key) ==
    Cardinality({i \in (LastRelease + 1)..Len(calls) :
                    calls[i].op = "handleKeyDown" /\ calls[i].arg = key})
\* What the claims say one key-down of an arrow key adds to MoveVector.
KeyStep(key) ==
    CASE key = KEY_Up -> <<0, 0, -myMoveSpeed>>
      [] key = KEY_Down -> <<0, 0, myMoveSpeed>>
      [] key = KEY_Right -> <<myMoveSpeed, 0, 0>>
      [] key = KEY_Left -> <<-myMoveSpeed, 0, 0>>
      [] OTHER -> Zero3

\* C14: a key-down of an arrow key returns true and adds MoveSpeed to one
\* axis of MoveVector (Up -Z, Down +Z, Right +X, Left -X); with no movement
\* key-up in between, MoveVector is
\* ((#Right - #Left) * MoveSpeed, 0, (#Down - #Up) * MoveSpeed).
C14_ArrowKeysAccumulate ==
    /\ myMove = <<(Downs(KEY_Right) - Downs(KEY_Left)) * myMoveSpeed, 0,
                  (Downs(KEY_Down) - Downs(KEY_Up)) * myMoveSpeed>>
    /\ (calls # <<>> /\ Last.op = "handleKeyDown" /\ Last.arg \in MoveKeys) =>
          /\ Last.ret = TRUE
          /\ myMove = VAdd(Last.pre.move, KeyStep(Last.arg))

\* Right was pressed twice and Up once, none released.
C14_Witness ==
    /\ Downs(KEY_Right) = 2
    /\ Downs(KEY_Up) = 1
    /\ myMove = <<2 * myMoveSpeed, 0, -myMoveSpeed>>

\* C15: every call other than the key-up of the toggle key leaves the mode
\* as it was.
C15_ModeOnlyByToggle ==
    calls # <<>> /\ ~IsToggle(Last) =>
        /\ Last.c.mode = Last.pre.mode
        /\ myCurrentMode = Last.pre.mode

\* The toggle key goes down in Ego mode, and the mode stays Ego.
C15_Witness ==
    /\ calls # <<>>
    /\ Last.op = "handleKeyDown"
    /\ Last.arg = KEY_F
    /\ Last.pre.mode = MODE_EGO
    /\ myCurrentMode = MODE_EGO

\* The pointer drag made last, as (button, dt, dx, dy).
LastIsDrag == calls # <<>> /\ Last.op = "performMovement"

\* C16: in Terrain mode a left-button drag invokes the base class's
\* middle-button movement with (dt, dx, dy), a middle-button drag its
\* left-button movement with (dt, dx, dy), a right-button drag its
\* right-button movement with (dt, dx, -dy); the drag returns and leaves
\* what that one base-class call returns and leaves.
C16_DragDispatchSwapped ==
    LastIsDrag /\ Last.pre.mode = MODE_TERRAIN =>
        LET button == Last.arg[1]
            dt == Last.arg[2]
            dx == Last.arg[3]
            dy == Last.arg[4]
            invoked ==
                CASE button = "left" ->
                        TerrainPerformMovementMiddleMouseButton(Last.pre, dt, dx, dy)
                  [] button = "middle" ->
                        TerrainPerformMovementLeftMouseButton(Last.pre, dt, dx, dy)
                  [] OTHER ->
                        TerrainPerformMovementRightMouseButton(Last.pre, dt, dx, -dy)
        IN  /\ Last.base = invoked.base
            /\ Last.base.name =
                  ( CASE button = "left" ->
                            "TerrainManipulator::performMovementMiddleMouseButton"
                      [] button = "middle" ->
                            "TerrainManipulator::performMovementLeftMouseButton"
                      [] OTHER ->
                            "TerrainManipulator::performMovementRightMouseButton" )
            /\ Last.base.dt = dt /\ Last.base.dx = dx
            /\ Last.base.dy = IF button = "right" THEN -dy ELSE dy
            /\ Last.ret = invoked.ret
            /\ Self = invoked.c

\* A right-button drag with a non-zero dy zooms by -dy.
C16_Witness ==
    /\ LastIsDrag /\ Last.pre.mode = MODE_TERRAIN
    /\ Last.arg[1] = "right"
    /\ Last.arg[4] # 0
    /\ Last.base.dy = -Last.arg[4]
    /\ _distance # Last.pre.distance

\* The view rotation a key-down moves along: getMatrix().getRotate().
ViewRotation(c) == MGetRotate(getMatrix(c))

\* C17 (as claimed): while a movement key is held, every frame translates
\* the focus point by MoveVector again; after the key-up MoveVector is
\* zero and the focus point rests.
C17_MoveReappliedEachFrame ==
    calls # <<>> /\ Last.op = "handleFrame" =>
        _center = VAdd(Last.pre.center, QRot(ViewRotation(Last.pre), Last.pre.move))

\* C17 (amended): MoveVector is applied to the focus point by handleKeyDown
\* alone, once per key-down event; a frame leaves every field as it was,
\* also while a movement key is held; a movement key-up zeroes MoveVector
\* and leaves the focus point, and with MoveVector zero a key-down of
\* another key leaves it as well.
C17_MoveAppliedPerKeyDown ==
    calls # <<>> =>
        /\ Last.op = "handleFrame" => Self = Last.pre
        /\ Last.op = "handleKeyDown" =>
              _center = VAdd(Last.pre.center, QRot(ViewRotation(Last.pre), myMove))
        /\ (Last.op = "handleKeyUp" /\ Last.arg \in MoveKeys) =>
              myMove = Zero3 /\ _center = Last.pre.center
        /\ ( /\ Last.op = "handleKeyDown"
             /\ Last.arg \notin MoveKeys
             /\ Last.pre.move = Zero3 )
              => _center = Last.pre.center

\* A frame passes while Up is held: the focus point stays where the
\* key-down left it.
C17_Witness ==
    /\ Len(calls) = 2
    /\ calls[1].op = "handleKeyDown" /\ calls[1].arg = KEY_Up
    /\ Last.op = "handleFrame"
    /\ myMove # Zero3
    /\ _center = Last.pre.center
    /\ _center # calls[1].pre.center

\* The eye of a manipulator with center, distance and the given rotation.
EyeOf(center, rotation, distance) ==
    VSub(center, QRot(rotation, <<0, 0, -distance>>))

\* C18 (as claimed): the eye of a rotateYawPitch call is that of _center,
\* _distance and _rotation as the call found them, and every exit path
\* commits a transform with that eye.
C18_EyeFromCallStart ==
    LastIsLook /\ Last.ret = TRUE =>
        /\ Last.eye = EyeOf(Last.pre.center, Last.pre.rotation, Last.pre.distance)
        /\ Last.commits = 1
        /\ Last.committed.trans = Last.eye

\* C18 (amended): the eye of a rotateYawPitch call is that of _center,
\* _distance and _rotation as re-levelled at the start of the call, taken
\* before the first candidate; the accepted candidate and the yaw-only
\* fallback both commit a transform with that eye.
C18_EyeFromLevelledStart ==
    LastIsLook /\ Last.ret = TRUE =>
        /\ Last.eye = EyeOf(Last.pre.center,
                            fixVerticalAxis(Last.pre.rotation, Z_AXIS, TRUE),
                            Last.pre.distance)
        /\ Last.commits = 1
        /\ Last.committed.trans = Last.eye

\* A pointer move finds the camera rolled; the re-levelling moves the eye,
\* and a later candidate is committed at the moved eye.
C18_Witness ==
    /\ LastIsLook /\ Last.ret = TRUE
    /\ Last.accepted
    /\ Len(Last.tried) > 1
    /\ Last.eye # EyeOf(Last.pre.center, Last.pre.rotation, Last.pre.distance)
    /\ Last.committed.trans = Last.eye

\* C19 (as claimed): a handleKeyDown call that returns false leaves every
\* field as it was.
C19_UnhandledKeyDownNoChange ==
    calls # <<>> /\ Last.op = "handleKeyDown" /\ Last.ret = FALSE => Self = Last.pre

\* The number of key-downs of the key that end the calls made so far, in a
\* row, and the fields before the first of them.
RunOf(key) ==
    Cardinality({i \in 1..Len(calls) :
                    \A j \in i..Len(calls) :
                        calls[j].op = "handleKeyDown" /\ calls[j].arg = key})
BeforeRunOf(key) == calls[Len(calls) - RunOf(key) + 1].pre

\* C20: a key-down of an arrow key moves _center once, by the view rotation
\* applied to myMove as that key-down leaves it; the n-th key-down in a row
\* of one arrow, counted from a zero myMove (no key-up in between), moves
\* it by n * myMoveSpeed along that key's axis; a key-up leaves _center.
C20_KeyDownTranslatesOnce ==
    calls # <<>> =>
        /\ (Last.op = "handleKeyDown" /\ Last.arg \in MoveKeys) =>
              _center = VAdd(Last.pre.center, QRot(ViewRotation(Last.pre), myMove))
        /\ \A key \in MoveKeys :
              (RunOf(key) > 0 /\ BeforeRunOf(key).move = Zero3) =>
                  VSub(_center, Last.pre.center)
                      = VScale(RunOf(key), QRot(ViewRotation(Last.pre), KeyStep(key)))
        /\ Last.op = "handleKeyUp" => _center = Last.pre.center

\* The second key-down of Up in a row, with the camera turned: _center
\* moves two steps along the turned axis.
C20_Witness ==
    /\ calls # <<>>
    /\ calls[1].op = "setByMatrix"
    /\ RunOf(KEY_Up) = 2
    /\ BeforeRunOf(KEY_Up).move = Zero3
    /\ _rotation # QIdentity
    /\ VSub(_center, Last.pre.center) = VScale(2, QRot(_rotation, KeyStep(KEY_Up)))
    /\ VSub(_center, Last.pre.center) # VScale(2, KeyStep(KEY_Up))

\* C21 (as claimed): the toggle changes the mode and nothing else, and
\* getMatrix() returns after the toggle the transform it returned before
\* it.
C21_ToggleKeepsView ==
    /\ (calls # <<>> /\ IsToggle(Last)) =>
          /\ Last.ret = TRUE
          /\ Self = [Last.pre EXCEPT !.mode = myCurrentMode]
    /\ ( /\ Len(calls) = 3
         /\ calls[1].op = "getMatrix"
         /\ IsToggle(calls[2])
         /\ Last.op = "getMatrix" )
          => Last.out = calls[1].out

====
